---- MODULE Spec2Model ----
\* Model of the client/server TCP message codec of protocol/ed2k
\* (message_c2s_tcp.go): Encode and Decode of the eight message variants,
\* byte for byte, with the receiver object and the caller's buffer as state.
EXTENDS Integers, Sequences, FiniteSets, TLC

\* ---------------------------------------------------------------- bounds
MaxTags == 1
MaxFiles == 1
MaxServers == 3
MaxText == 2
MaxDecodes == 2
WideSpan == 1

\* ------------------------------------------------------- byte primitives
ByteRange == 256

Min(a, b) == IF a < b THEN a ELSE b

\* data[lo:hi] of Go, 0-based and half-open
Slice(data, lo, hi) == SubSeq(data, lo + 1, hi)

\* data[i] of Go, 0-based
At(data, i) == data[i + 1]

PutUint16(n) == << n % ByteRange, (n \div ByteRange) % ByteRange >>

PutUint32(n) ==
    << n % ByteRange, (n \div ByteRange) % ByteRange,
       (n \div (ByteRange * ByteRange)) % ByteRange,
       (n \div (ByteRange * ByteRange * ByteRange)) % ByteRange >>

Uint16(b) == b[1] + ByteRange * b[2]

Uint32(b) ==
    b[1] + ByteRange * b[2] + ByteRange * ByteRange * b[3]
         + ByteRange * ByteRange * ByteRange * b[4]

\* byte(n) and uint16(n) conversions of Go: the value modulo the width
ToByte(n) == n % ByteRange

ToUint16(n) == n % (ByteRange * ByteRange)

Zeros(n) == [i \in 1..n |-> 0]

RECURSIVE ConcatAll(_)
\* what a buffer holds after the elements of parts were written to it in order
ConcatAll(parts) ==
    IF Len(parts) = 0 THEN << >>
    ELSE IF Len(parts) = 1 THEN parts[1]
    ELSE LET h == Len(parts) \div 2
         IN  ConcatAll(SubSeq(parts, 1, h)) \o ConcatAll(SubSeq(parts, h + 1, Len(parts)))

\* ------------------------------------------------------------ error kinds
NoError == "nil"
ErrShortBuffer == "ErrShortBuffer"
ErrWrongMessageType == "ErrWrongMessageType"
ErrUnknownTagType == "ErrUnknownTagType"
Panic == "panic"

\* ------------------------------------------------------------------ header
HeaderLength == 5
ProtocolEDonkey == 227

ZeroHeader == [Protocol |-> 0, Size |-> 0]

HeaderWriteTo(h) == << h.Protocol >> \o PutUint32(h.Size)

HeaderDecode(data) ==
    IF Len(data) < HeaderLength
    THEN [header |-> ZeroHeader, err |-> ErrShortBuffer]
    ELSE [header |-> [Protocol |-> At(data, 0), Size |-> Uint32(Slice(data, 1, 5))],
          err |-> NoError]

\* a slip: the placeholder length is left as written
NoPatchSize(data) == data

\* the final two statements of every Encode: size := len(data) - HeaderLength;
\* PutUint32(data[1:5], size)
PatchSize(data) ==
    << data[1] >> \o PutUint32(Len(data) - HeaderLength) \o SubSeq(data, 6, Len(data))

\* -------------------------------------------------- message discriminants
MessageLoginRequest == 1
MessageServerMessage == 56
MessageIDChange == 64
MessageOfferFiles == 21
MessageGetServerList == 20
MessageServerList == 50
MessageServerStatus == 52
MessageServerIdent == 65

\* ------------------------------------------------------------- tag codec
\* (modelled from the tag wire format, sections 4.2 and 6 of the specification)
TagKeyFormBit == 128
TagTypeString == 2
TagTypeUint32 == 3
TagTypeUint16 == 8
TagTypeUint8 == 9

\* a tag: value-variant Type, Code = TRUE for the one-byte key form, Name the
\* key bytes, N the numeric value, S the string value
MkTag(type, code, name, n, s) ==
    [Type |-> type, Code |-> code, Name |-> name, N |-> n, S |-> s]

ZeroTag == MkTag(0, FALSE, << >>, 0, << >>)

TagWriteTo(t) ==
    << t.Type + (IF t.Code THEN TagKeyFormBit ELSE 0) >>
    \o (IF t.Code THEN t.Name ELSE PutUint16(Len(t.Name)) \o t.Name)
    \o (CASE t.Type = TagTypeString -> PutUint16(Len(t.S)) \o t.S
          [] t.Type = TagTypeUint32 -> PutUint32(t.N)
          [] t.Type = TagTypeUint16 -> PutUint16(t.N)
          [] OTHER -> << t.N % ByteRange >>)

\* the value part of ReadTag, the key already read; pos is the reader's offset
ReadTagValue(data, pos, type, code, name) ==
    LET fail(e) == [tag |-> ZeroTag, pos |-> pos, err |-> e]
        fixed(w, n) == [tag |-> MkTag(type, code, name, n, << >>), pos |-> pos + w,
                        err |-> NoError]
    IN  IF type = TagTypeString
        THEN IF Len(data) < pos + 2 THEN fail(ErrShortBuffer)
             ELSE LET l == Uint16(Slice(data, pos, pos + 2))
                  IN  IF Len(data) < pos + 2 + l THEN fail(ErrShortBuffer)
                      ELSE [tag |-> MkTag(type, code, name, 0, Slice(data, pos + 2, pos + 2 + l)),
                            pos |-> pos + 2 + l, err |-> NoError]
        ELSE IF type = TagTypeUint32
        THEN IF Len(data) < pos + 4 THEN fail(ErrShortBuffer)
             ELSE fixed(4, Uint32(Slice(data, pos, pos + 4)))
        ELSE IF type = TagTypeUint16
        THEN IF Len(data) < pos + 2 THEN fail(ErrShortBuffer)
             ELSE fixed(2, Uint16(Slice(data, pos, pos + 2)))
        ELSE IF type = TagTypeUint8
        THEN IF Len(data) < pos + 1 THEN fail(ErrShortBuffer)
             ELSE fixed(1, At(data, pos))
        ELSE fail(ErrUnknownTagType)

ReadTag(data, pos) ==
    LET fail(e) == [tag |-> ZeroTag, pos |-> pos, err |-> e]
    IN  IF Len(data) < pos + 1 THEN fail(ErrShortBuffer)
        ELSE LET tb == At(data, pos)
                 code == tb >= TagKeyFormBit
                 type == tb % TagKeyFormBit
             IN  IF code
                 THEN IF Len(data) < pos + 2 THEN fail(ErrShortBuffer)
                      ELSE ReadTagValue(data, pos + 2, type, code, << At(data, pos + 1) >>)
                 ELSE IF Len(data) < pos + 3 THEN fail(ErrShortBuffer)
                      ELSE LET l == Uint16(Slice(data, pos + 1, pos + 3))
                           IN  IF Len(data) < pos + 3 + l THEN fail(ErrShortBuffer)
                               ELSE ReadTagValue(data, pos + 3 + l, type, code,
                                                 Slice(data, pos + 3, pos + 3 + l))

\* for _, tag := range tags { tag.WriteTo(buf) }
WriteTags(tags) == ConcatAll([i \in 1..Len(tags) |-> TagWriteTo(tags[i])])

RECURSIVE ReadTags(_, _, _, _)
\* for i := 0; i < int(tagCount); i++ { tag, err := ReadTag(r); if err != nil
\* { return err }; tags = append(tags, tag) }: acc is the list appended to
ReadTags(data, pos, count, acc) ==
    IF count = 0 THEN [tags |-> acc, pos |-> pos, err |-> NoError]
    ELSE LET r == ReadTag(data, pos)
         IN  IF r.err # NoError THEN [tags |-> acc, pos |-> pos, err |-> r.err]
             ELSE ReadTags(data, r.pos, count - 1, Append(acc, r.tag))

\* ------------------------------------------------------- file entry codec
\* (modelled from section 4.4 of the specification)
FileHeadLength == 22

ZeroFile == [Hash |-> Zeros(16), ClientID |-> 0, Port |-> 0, Tags |-> << >>]

FileWriteTo(f) ==
    f.Hash \o PutUint32(f.ClientID) \o PutUint16(f.Port)
           \o PutUint32(Len(f.Tags)) \o WriteTags(f.Tags)

ReadFile(data, pos) ==
    LET fail(e) == [file |-> ZeroFile, pos |-> pos, err |-> e]
    IN  IF Len(data) < pos + FileHeadLength THEN fail(ErrShortBuffer)
        ELSE IF Len(data) < pos + FileHeadLength + 4 THEN fail(ErrShortBuffer)
        ELSE LET count == Uint32(Slice(data, pos + 22, pos + 26))
                 t == ReadTags(data, pos + 26, count, << >>)
             IN  IF t.err # NoError THEN fail(t.err)
                 ELSE [file |-> [Hash |-> Slice(data, pos, pos + 16),
                                 ClientID |-> Uint32(Slice(data, pos + 16, pos + 20)),
                                 Port |-> Uint16(Slice(data, pos + 20, pos + 22)),
                                 Tags |-> t.tags],
                       pos |-> t.pos, err |-> NoError]

\* for _, file := range files { file.WriteTo(buf) }
WriteFiles(files) == ConcatAll([i \in 1..Len(files) |-> FileWriteTo(files[i])])

RECURSIVE ReadFiles(_, _, _, _)
ReadFiles(data, pos, count, acc) ==
    IF count = 0 THEN [files |-> acc, pos |-> pos, err |-> NoError]
    ELSE LET r == ReadFile(data, pos)
         IN  IF r.err # NoError THEN [files |-> acc, pos |-> pos, err |-> r.err]
             ELSE ReadFiles(data, r.pos, count - 1, Append(acc, r.file))

\* ------------------------------------------------------------ net.TCPAddr
\* A *net.TCPAddr slot: Nil for the nil pointer; IP the bytes of a net.IP that
\* owns its storage (4-byte or 16-byte form); View >= 0 when the net.IP is a
\* slice of the caller's buffer starting at that offset (net.IP(data[pos:pos+4]))
NilAddr == [Nil |-> TRUE, IP |-> << >>, View |-> -1, Port |-> 0]

MkAddr(ip, port) == [Nil |-> FALSE, IP |-> ip, View |-> -1, Port |-> port]

ViewAddr(pos, port) == [Nil |-> FALSE, IP |-> << >>, View |-> pos, Port |-> port]

V4InV6Prefix == Zeros(10) \o << 255, 255 >>

\* net.IPv4(a, b, c, d): the 16-byte form
IPv4(b4) == V4InV6Prefix \o b4

IPv4zero == IPv4(<< 0, 0, 0, 0 >>)

\* net.IP.To4
To4(ip) ==
    IF Len(ip) = 4 THEN ip
    ELSE IF Len(ip) = 16 /\ SubSeq(ip, 1, 12) = V4InV6Prefix THEN SubSeq(ip, 13, 16)
    ELSE << >>

\* the bytes a net.IP holds now, given the content of the caller's buffer
IPBytes(addr, data) ==
    IF addr.View >= 0 THEN Slice(data, addr.View, addr.View + 4) ELSE addr.IP

\* -------------------------------------------------------- minimum bodies
LoginMinBody == 27
ServerMessageMinBody == 3
IDChangeMinBody == 9
OfferFilesMinBody == 5
GetServerListMinBody == 1
ServerListMinBody == 2
ServerStatusMinBody == 9
ServerIdentMinBody == 29

\* a slip: the length test is left out
CheckFrameNoLength(data, declared, minBody, msgType) ==
    IF Len(data) < HeaderLength + 1 THEN Panic
    ELSE IF At(data, 5) # msgType THEN ErrWrongMessageType
    ELSE NoError

\* the two checks that follow header.Decode in every Decode; declared is the
\* Size the length test uses
CheckFrame(data, declared, minBody, msgType) ==
    IF Len(data) < HeaderLength + declared \/ Len(data) < HeaderLength + minBody
    THEN ErrShortBuffer
    ELSE IF Len(data) < HeaderLength + 1 THEN Panic
    ELSE IF At(data, 5) # msgType THEN ErrWrongMessageType
    ELSE NoError

\* ------------------------------------------------------------ LoginMessage
ZeroLogin ==
    [Header |-> ZeroHeader, UID |-> Zeros(16), ClientID |-> 0, Port |-> 0, Tags |-> << >>]

LoginEncode(m) ==
    PatchSize(HeaderWriteTo(m.Header) \o << MessageLoginRequest >> \o m.UID
              \o PutUint32(m.ClientID) \o PutUint16(m.Port)
              \o PutUint32(Len(m.Tags)) \o WriteTags(m.Tags))

LoginDecode(m, data) ==
    LET h == HeaderDecode(data)
        c == CheckFrame(data, h.header.Size, LoginMinBody, MessageLoginRequest)
        m1 == [m EXCEPT !.Header = h.header]
    IN  IF h.err # NoError THEN [m |-> m, err |-> h.err]
        ELSE IF c # NoError THEN [m |-> m, err |-> c]
        ELSE IF Len(data) < 6 + 16 + 4 + 2 + 4 THEN [m |-> m1, err |-> Panic]
        ELSE LET t == ReadTags(data, 32, Uint32(Slice(data, 28, 32)), m.Tags)
             IN  [m |-> [m1 EXCEPT !.UID = Slice(data, 6, 22),
                                   !.ClientID = Uint32(Slice(data, 22, 26)),
                                   !.Port = Uint16(Slice(data, 26, 28)),
                                   !.Tags = t.tags],
                  err |-> t.err]

\* ----------------------------------------------------------- ServerMessage
ZeroServerMessage == [Header |-> ZeroHeader, Messages |-> << >>]

ServerMessageEncode(m) ==
    PatchSize(HeaderWriteTo(m.Header) \o << MessageServerMessage >>
              \o PutUint16(ToUint16(Len(m.Messages))) \o m.Messages)

ServerMessageDecode(m, data) ==
    LET h == HeaderDecode(data)
        c == CheckFrame(data, h.header.Size, ServerMessageMinBody, MessageServerMessage)
        m1 == [m EXCEPT !.Header = h.header]
    IN  IF h.err # NoError THEN [m |-> m, err |-> h.err]
        ELSE IF c # NoError THEN [m |-> m, err |-> c]
        ELSE IF Len(data) < 6 + 2 THEN [m |-> m1, err |-> Panic]
        ELSE LET size == Uint16(Slice(data, 6, 8))
             IN  IF Len(data) < 8 + size THEN [m |-> m1, err |-> ErrShortBuffer]
                 ELSE [m |-> [m1 EXCEPT !.Messages = Slice(data, 8, 8 + size)],
                       err |-> NoError]

\* --------------------------------------------------------- IDChangeMessage
ZeroIDChange == [Header |-> ZeroHeader, ClientID |-> 0, Bitmap |-> 0]

IDChangeEncode(m) ==
    PatchSize(HeaderWriteTo(m.Header) \o << MessageIDChange >>
              \o PutUint32(m.ClientID) \o PutUint32(m.Bitmap))

IDChangeDecode(m, data) ==
    LET h == HeaderDecode(data)
        c == CheckFrame(data, h.header.Size, IDChangeMinBody, MessageIDChange)
        m1 == [m EXCEPT !.Header = h.header]
    IN  IF h.err # NoError THEN [m |-> m, err |-> h.err]
        ELSE IF c # NoError THEN [m |-> m, err |-> c]
        ELSE IF Len(data) < 6 + 4 + 4 THEN [m |-> m1, err |-> Panic]
        ELSE [m |-> [m1 EXCEPT !.ClientID = Uint32(Slice(data, 6, 10)),
                               !.Bitmap = Uint32(Slice(data, 10, 14))],
              err |-> NoError]

\* ------------------------------------------------------- OfferFilesMessage
ZeroOfferFiles == [Header |-> ZeroHeader, Files |-> << >>]

OfferFilesEncode(m) ==
    PatchSize(HeaderWriteTo(m.Header) \o << MessageOfferFiles >>
              \o PutUint32(Len(m.Files)) \o WriteFiles(m.Files))

OfferFilesDecode(m, data) ==
    LET h == HeaderDecode(data)
        c == CheckFrame(data, h.header.Size, OfferFilesMinBody, MessageOfferFiles)
        m1 == [m EXCEPT !.Header = h.header]
    IN  IF h.err # NoError THEN [m |-> m, err |-> h.err]
        ELSE IF c # NoError THEN [m |-> m, err |-> c]
        ELSE IF Len(data) < 6 + 4 THEN [m |-> m1, err |-> Panic]
        ELSE LET f == ReadFiles(data, 10, Uint32(Slice(data, 6, 10)), m.Files)
             IN  [m |-> [m1 EXCEPT !.Files = f.files], err |-> f.err]

\* ---------------------------------------------------- GetServerListMessage
ZeroGetServerList == [Header |-> ZeroHeader]

GetServerListEncode(m) ==
    PatchSize(HeaderWriteTo(m.Header) \o << MessageGetServerList >>)

GetServerListDecode(m, data) ==
    LET h == HeaderDecode(data)
        c == CheckFrame(data, h.header.Size, GetServerListMinBody, MessageGetServerList)
    IN  IF h.err # NoError THEN [m |-> m, err |-> h.err]
        ELSE IF c # NoError THEN [m |-> m, err |-> c]
        ELSE [m |-> [m EXCEPT !.Header = h.header], err |-> NoError]

\* ------------------------------------------------------- ServerListMessage
ZeroServerList == [Header |-> ZeroHeader, Servers |-> << >>]

\* a slip: a nil slot is skipped
WriteAddrSkipNil(addr) ==
    IF addr.Nil THEN << >> ELSE To4(addr.IP) \o PutUint16(ToUint16(addr.Port))

\* the body of the range loop of Encode: a nil slot becomes
\* &net.TCPAddr{IP: net.IPv4zero, Port: 0}; then IP.To4() and uint16(Port)
WriteAddr(addr) ==
    LET a == IF addr.Nil THEN MkAddr(IPv4zero, 0) ELSE addr
    IN  To4(a.IP) \o PutUint16(ToUint16(a.Port))

WriteServers(servers) == ConcatAll([i \in 1..Len(servers) |-> WriteAddr(servers[i])])

ServerListEncode(m) ==
    PatchSize(HeaderWriteTo(m.Header) \o << MessageServerList >>
              \o << ToByte(Len(m.Servers)) >> \o WriteServers(m.Servers))

\* one appended entry: the IP is a slice of data, the port is copied
ReadAddr(data, pos) == ViewAddr(pos, Uint16(Slice(data, pos + 4, pos + 6)))

\* the loop of Decode: count entries appended to acc, pos advancing by 6
ReadServers(data, pos, count, acc) ==
    acc \o [i \in 1..count |-> ReadAddr(data, pos + 6 * (i - 1))]

ServerListDecode(m, data) ==
    LET h == HeaderDecode(data)
        c == CheckFrame(data, h.header.Size, ServerListMinBody, MessageServerList)
        m1 == [m EXCEPT !.Header = h.header]
    IN  IF h.err # NoError THEN [m |-> m, err |-> h.err]
        ELSE IF c # NoError THEN [m |-> m, err |-> c]
        ELSE IF Len(data) < 6 + 1 THEN [m |-> m1, err |-> Panic]
        ELSE LET count == At(data, 6)
             IN  IF Len(data) < 7 + count * 6 THEN [m |-> m1, err |-> ErrShortBuffer]
                 ELSE [m |-> [m1 EXCEPT !.Servers = ReadServers(data, 7, count, m.Servers)],
                       err |-> NoError]

\* ----------------------------------------------------- ServerStatusMessage
ZeroServerStatus == [Header |-> ZeroHeader, UserCount |-> 0, FileCount |-> 0]

ServerStatusEncode(m) ==
    PatchSize(HeaderWriteTo(m.Header) \o << MessageServerStatus >>
              \o PutUint32(m.UserCount) \o PutUint32(m.FileCount))

ServerStatusDecode(m, data) ==
    LET h == HeaderDecode(data)
        c == CheckFrame(data, h.header.Size, ServerStatusMinBody, MessageServerStatus)
        m1 == [m EXCEPT !.Header = h.header]
    IN  IF h.err # NoError THEN [m |-> m, err |-> h.err]
        ELSE IF c # NoError THEN [m |-> m, err |-> c]
        ELSE IF Len(data) < 6 + 4 + 4 THEN [m |-> m1, err |-> Panic]
        ELSE [m |-> [m1 EXCEPT !.UserCount = Uint32(Slice(data, 6, 10)),
                               !.FileCount = Uint32(Slice(data, 10, 14))],
              err |-> NoError]

\* ------------------------------------------------------ ServerIdentMessage
ZeroServerIdent ==
    [Header |-> ZeroHeader, Hash |-> Zeros(16), IP |-> 0, Port |-> 0, Tags |-> << >>]

ServerIdentEncode(m) ==
    PatchSize(HeaderWriteTo(m.Header) \o << MessageServerIdent >> \o m.Hash
              \o PutUint32(m.IP) \o PutUint16(m.Port)
              \o PutUint32(Len(m.Tags)) \o WriteTags(m.Tags))

\* the length test reads m.Header.Size, the receiver's header, where the other
\* variants read header.Size; pos += copy(m.Hash[:], data[pos:]) copies what
\* is there, at most 16 bytes
ServerIdentDecode(m, data) ==
    LET h == HeaderDecode(data)
        c == CheckFrame(data, m.Header.Size, ServerIdentMinBody, MessageServerIdent)
        m1 == [m EXCEPT !.Header = h.header]
        n == Min(16, Len(data) - 6)
        pos == 6 + n
    IN  IF h.err # NoError THEN [m |-> m, err |-> h.err]
        ELSE IF c # NoError THEN [m |-> m, err |-> c]
        ELSE IF Len(data) < pos + 4 + 2 + 4 THEN [m |-> m1, err |-> Panic]
        ELSE LET t == ReadTags(data, pos + 10, Uint32(Slice(data, pos + 6, pos + 10)), m.Tags)
             IN  [m |-> [m1 EXCEPT !.Hash = Slice(data, 6, pos) \o SubSeq(m.Hash, n + 1, 16),
                                   !.IP = Uint32(Slice(data, pos, pos + 4)),
                                   !.Port = Uint16(Slice(data, pos + 4, pos + 6)),
                                   !.Tags = t.tags],
                  err |-> t.err]

\* ---------------------------------------------------------------- dispatch
Variants ==
    { "Login", "ServerMessage", "IDChange", "OfferFiles", "GetServerList",
      "ServerList", "ServerStatus", "ServerIdent" }

\* Type() of each variant
Type(v) ==
    CASE v = "Login" -> MessageLoginRequest
      [] v = "ServerMessage" -> MessageServerMessage
      [] v = "IDChange" -> MessageIDChange
      [] v = "OfferFiles" -> MessageOfferFiles
      [] v = "GetServerList" -> MessageGetServerList
      [] v = "ServerList" -> MessageServerList
      [] v = "ServerStatus" -> MessageServerStatus
      [] v = "ServerIdent" -> MessageServerIdent

\* a fresh zero-valued message of the variant
Zero(v) ==
    CASE v = "Login" -> ZeroLogin
      [] v = "ServerMessage" -> ZeroServerMessage
      [] v = "IDChange" -> ZeroIDChange
      [] v = "OfferFiles" -> ZeroOfferFiles
      [] v = "GetServerList" -> ZeroGetServerList
      [] v = "ServerList" -> ZeroServerList
      [] v = "ServerStatus" -> ZeroServerStatus
      [] v = "ServerIdent" -> ZeroServerIdent

Encode(v, m) ==
    CASE v = "Login" -> LoginEncode(m)
      [] v = "ServerMessage" -> ServerMessageEncode(m)
      [] v = "IDChange" -> IDChangeEncode(m)
      [] v = "OfferFiles" -> OfferFilesEncode(m)
      [] v = "GetServerList" -> GetServerListEncode(m)
      [] v = "ServerList" -> ServerListEncode(m)
      [] v = "ServerStatus" -> ServerStatusEncode(m)
      [] v = "ServerIdent" -> ServerIdentEncode(m)

Decode(v, m, data) ==
    CASE v = "Login" -> LoginDecode(m, data)
      [] v = "ServerMessage" -> ServerMessageDecode(m, data)
      [] v = "IDChange" -> IDChangeDecode(m, data)
      [] v = "OfferFiles" -> OfferFilesDecode(m, data)
      [] v = "GetServerList" -> GetServerListDecode(m, data)
      [] v = "ServerList" -> ServerListDecode(m, data)
      [] v = "ServerStatus" -> ServerStatusDecode(m, data)
      [] v = "ServerIdent" -> ServerIdentDecode(m, data)

\* ------------------------------------------------------- views and copies
\* the server list with every net.IP replaced by the bytes it holds now
OwnServers(servers, data) ==
    [i \in 1..Len(servers) |->
        IF servers[i].Nil THEN servers[i]
        ELSE MkAddr(IPBytes(servers[i], data), servers[i].Port)]

\* what the fields of message m read as, given the content of the caller's buffer
Deref(v, m, data) ==
    IF v = "ServerList" THEN [m EXCEPT !.Servers = OwnServers(m.Servers, data)] ELSE m

\* ------------------------------------------------------------ input domain
SenderSizes == { 0, 77 }

SenderHeaders == { [Protocol |-> ProtocolEDonkey, Size |-> s] : s \in SenderSizes }

SeqsUpTo(S, n) == UNION { [1..k -> S] : k \in 0..n }

UID1 == [i \in 1..16 |-> i]

TagSet ==
    { MkTag(TagTypeUint8, TRUE, << 17 >>, 7, << >>),
      MkTag(TagTypeString, FALSE, << 110 >>, 0, << 97, 98 >>) }

TagLists == SeqsUpTo(TagSet, MaxTags)

FileSet == { [Hash |-> UID1, ClientID |-> 16909060, Port |-> 4662, Tags |-> t] : t \in TagLists }

AddrSet == { NilAddr, MkAddr(<< 1, 2, 3, 4 >>, 4661), MkAddr(IPv4(<< 10, 0, 0, 9 >>), 4242) }

TextBytes == { 104, 10 }

Messages(v) ==
    CASE v = "Login" ->
           { [Header |-> h, UID |-> UID1, ClientID |-> 16909060, Port |-> 4662, Tags |-> t] :
             h \in SenderHeaders, t \in TagLists }
      [] v = "ServerMessage" ->
           { [Header |-> h, Messages |-> t] : h \in SenderHeaders, t \in SeqsUpTo(TextBytes, MaxText) }
      [] v = "IDChange" ->
           { [Header |-> h, ClientID |-> 16909060, Bitmap |-> b] : h \in SenderHeaders, b \in 0..3 }
      [] v = "OfferFiles" ->
           { [Header |-> h, Files |-> f] : h \in SenderHeaders, f \in SeqsUpTo(FileSet, MaxFiles) }
      [] v = "GetServerList" -> { [Header |-> h] : h \in SenderHeaders }
      [] v = "ServerList" ->
           { [Header |-> h, Servers |-> s] : h \in SenderHeaders, s \in SeqsUpTo(AddrSet, MaxServers) }
      [] v = "ServerStatus" ->
           { [Header |-> h, UserCount |-> u, FileCount |-> 66000] : h \in SenderHeaders, u \in { 0, 300 } }
      [] v = "ServerIdent" ->
           { [Header |-> h, Hash |-> UID1, IP |-> 16909060, Port |-> 4661, Tags |-> t] :
             h \in SenderHeaders, t \in TagLists }

\* server lists about as long as the one-byte entry count can express
WideAddrSet == { NilAddr, MkAddr(<< 1, 2, 3, 4 >>, 4661) }

WideMessages ==
    { [Header |-> [Protocol |-> ProtocolEDonkey, Size |-> 0], Servers |-> [i \in 1..n |-> a]] :
      n \in (ByteRange - WideSpan)..(ByteRange + WideSpan), a \in WideAddrSet }

\* what the transport may do to a frame before handing it on
DeclaredDeltas == { -1, 3 }
CorruptBytes == { 42 }

\* the offsets a corruption hits: the low byte of the count or length prefix
\* and the type byte of the first tag
CorruptOffsets(x) ==
    CASE x = "Login" -> { 28, 32 }
      [] x = "ServerMessage" -> { 6 }
      [] x = "OfferFiles" -> { 6, 32, 36 }
      [] x = "ServerList" -> { 6 }
      [] x = "ServerIdent" -> { 28, 32 }
      [] OTHER -> { }
ReuseBytes == { 85 }

\* ------------------------------------------------------------------- state
VARIABLES
    v,        \* the message variant of this run
    msg,      \* the sender's message
    data,     \* the caller's buffer
    tamper,   \* what the transport did to the frame that fills the buffer
    m,        \* the receiver message
    before,   \* the receiver as it was when the last Decode was called
    err,      \* what the last Decode returned
    snap,     \* the receiver's fields as they read when the last Decode returned
    op,       \* the last operation
    nDec      \* number of Decode calls

vars == << v, msg, data, tamper, m, before, err, snap, op, nDec >>

Init ==
    /\ v \in Variants
    /\ msg \in Messages(v)
    /\ data = << >>
    /\ tamper = "none"
    /\ m = Zero(v)
    /\ before = Zero(v)
    /\ err = "none"
    /\ snap = Zero(v)
    /\ op = "init"
    /\ nDec = 0

\* a frame arrives in a new byte array, which becomes the caller's buffer;
\* views into the array it replaces keep what they held
Arrive(frame, how) ==
    /\ data' = frame
    /\ tamper' = how
    /\ m' = Deref(v, m, data)
    /\ before' = Deref(v, m, data)
    /\ err' = "none"
    /\ snap' = Deref(v, m, data)
    /\ UNCHANGED << v, msg, nDec >>

\* the sender encodes its message
EncodeMsg ==
    /\ op \in { "init", "decode", "reuse" }
    /\ Arrive(Encode(v, msg), "none")
    /\ op' = "encode"

\* the encoded frame is cut off after n bytes
Truncate ==
    /\ op = "encode"
    /\ \E n \in 0..(Len(Encode(v, msg)) - 1) :
          Arrive(SubSeq(Encode(v, msg), 1, n), "truncate")
    /\ op' = "tamper"

\* the discriminant of the encoded frame is replaced by that of another variant
SwapDiscriminant ==
    /\ op = "encode"
    /\ \E w \in Variants \ { v } :
          Arrive([Encode(v, msg) EXCEPT ![6] = Type(w)], "swap")
    /\ op' = "tamper"

\* the header declares a payload length other than the one that follows
Redeclare ==
    /\ op = "encode"
    /\ \E d \in DeclaredDeltas :
          LET f == Encode(v, msg)
          IN  Arrive(<< f[1] >> \o PutUint32(Len(f) - HeaderLength + d)
                        \o SubSeq(f, 6, Len(f)), "size")
    /\ op' = "tamper"

\* one byte of the body of the encoded frame is corrupted
Corrupt ==
    /\ op = "encode"
    /\ \E i \in CorruptOffsets(v), b \in CorruptBytes :
          /\ i < Len(Encode(v, msg))
          /\ Arrive([Encode(v, msg) EXCEPT ![i + 1] = b], "corrupt")
    /\ op' = "tamper"

\* the receiver decodes the caller's buffer
DecodeMsg ==
    /\ op # "init"
    /\ nDec < MaxDecodes
    /\ LET r == Decode(v, m, data)
       IN  /\ m' = r.m
           /\ err' = r.err
           /\ snap' = Deref(v, r.m, data)
    /\ before' = m
    /\ op' = "decode"
    /\ nDec' = nDec + 1
    /\ UNCHANGED << v, msg, data, tamper >>

\* after a Decode the transport reuses the buffer: it overwrites it in place
Reuse ==
    /\ op = "decode"
    /\ data # << >>
    /\ \E b \in ReuseBytes : data' = [i \in 1..Len(data) |-> b]
    /\ op' = "reuse"
    /\ UNCHANGED << v, msg, tamper, m, before, err, snap, nDec >>

Next ==
    \/ EncodeMsg
    \/ Truncate
    \/ SwapDiscriminant
    \/ Redeclare
    \/ Corrupt
    \/ DecodeMsg
    \/ Reuse

Spec == Init /\ [][Next]_vars

\* the same machine started from the wide server lists as well, the frames
\* left as encoded
InitWide ==
    /\ v \in Variants
    /\ msg \in Messages(v) \cup (IF v = "ServerList" THEN WideMessages ELSE { })
    /\ data = << >>
    /\ tamper = "none"
    /\ m = Zero(v)
    /\ before = Zero(v)
    /\ err = "none"
    /\ snap = Zero(v)
    /\ op = "init"
    /\ nDec = 0

NextWide ==
    \/ EncodeMsg
    \/ DecodeMsg
    \/ Reuse

SpecWide == InitWide /\ [][NextWide]_vars

\* ================================================================ properties

\* the minimum body the length test of each Decode asks for
MinBody(x) ==
    CASE x = "Login" -> LoginMinBody
      [] x = "ServerMessage" -> ServerMessageMinBody
      [] x = "IDChange" -> IDChangeMinBody
      [] x = "OfferFiles" -> OfferFilesMinBody
      [] x = "GetServerList" -> GetServerListMinBody
      [] x = "ServerList" -> ServerListMinBody
      [] x = "ServerStatus" -> ServerStatusMinBody
      [] x = "ServerIdent" -> ServerIdentMinBody

\* header + discriminant + the fixed fields and the count or length prefix
RequiredLength(x) ==
    CASE x = "Login" -> 5 + 1 + 16 + 4 + 2 + 4
      [] x = "ServerMessage" -> 5 + 1 + 2
      [] x = "IDChange" -> 5 + 1 + 4 + 4
      [] x = "OfferFiles" -> 5 + 1 + 4
      [] x = "GetServerList" -> 5 + 1
      [] x = "ServerList" -> 5 + 1 + 1
      [] x = "ServerStatus" -> 5 + 1 + 4 + 4
      [] x = "ServerIdent" -> 5 + 1 + 16 + 4 + 2 + 4

\* a server slot as the wire format can carry it: the IPv4 address in its
\* 4-byte form and the port, the nil slot being the zero address with port 0
\* (section 4.5 of the specification: normalized on encode)
Carried(a) ==
    IF a.Nil THEN << 0, 0, 0, 0, 0 >>
    ELSE SubSeq(a.IP, Len(a.IP) - 3, Len(a.IP)) \o << a.Port >>

\* two server lists hold the same slots, in order
SameServers(a, b) ==
    /\ Len(a) = Len(b)
    /\ \A i \in 1..Len(a) : Carried(a[i]) = Carried(b[i])

\* the variant-specific fields of x and y are equal (the Header is left out)
SameFields(x, y) ==
    IF v = "ServerList" THEN SameServers(x.Servers, y.Servers)
    ELSE [x EXCEPT !.Header = ZeroHeader] = [y EXCEPT !.Header = ZeroHeader]

\* C1: decoding the bytes of Encode into a fresh message succeeds and gives
\* back the variant-specific fields of the encoded message
RoundTrip ==
    (op = "decode" /\ tamper = "none" /\ before = Zero(v))
        => (err = NoError /\ SameFields(Deref(v, m, data), msg))

\* C2: whatever the Header.Size of the message, bytes 1..5 of the encoded
\* frame hold len(data) - 5 as a little-endian uint32
HeaderLengthInvariant ==
    op = "encode"
        => /\ Len(data) >= HeaderLength + 1
           /\ LET size == Len(data) - HeaderLength
              IN  /\ At(data, 1) = size % 256
                  /\ At(data, 2) = (size \div 256) % 256
                  /\ At(data, 3) = (size \div 65536) % 256
                  /\ At(data, 4) = (size \div 16777216) % 256

HeaderLengthWitness ==
    /\ op = "encode"
    /\ msg.Header.Size = 77
    /\ Len(data) - HeaderLength = 30
    /\ At(data, 1) = 30

\* C3: a Decode that returns an error leaves the receiver as it was
AllOrNothing ==
    (op = "decode" /\ err \in { ErrShortBuffer, ErrWrongMessageType, ErrUnknownTagType })
        => m = before

\* C4: the length test of Decode uses the header of the buffer at hand: a
\* buffer shorter than 5 + its declared length is rejected as short, and a
\* buffer long enough is not rejected as short on account of the receiver's
\* old Header.Size
FreshHeaderValidation ==
    (op = "decode" /\ Len(data) >= HeaderLength)
        => LET declared == Uint32(Slice(data, 1, 5))
           IN  /\ Len(data) < HeaderLength + declared => err = ErrShortBuffer
               /\ ( /\ Len(data) >= HeaderLength + declared
                    /\ Len(data) >= HeaderLength + MinBody(v)
                    /\ err = ErrShortBuffer )
                  => Decode(v, [before EXCEPT !.Header = ZeroHeader], data).err = ErrShortBuffer

\* C5: a frame cut off before the variant's minimum length is rejected with
\* ErrShortBuffer, and no read goes past the end of the buffer
TruncationSafety ==
    (op = "decode" /\ tamper = "truncate" /\ Len(data) < RequiredLength(v))
        => err = ErrShortBuffer

TruncationWitness ==
    /\ op = "decode"
    /\ tamper = "truncate"
    /\ v = "ServerIdent"
    /\ Len(data) = RequiredLength(v) - 1
    /\ before # Zero(v)
    /\ err = ErrShortBuffer

\* C6: an encoded frame whose discriminant is replaced by that of another
\* variant is rejected with ErrWrongMessageType
WrongDiscriminant ==
    (op = "decode" /\ tamper = "swap") => err = ErrWrongMessageType

\* C7: what Decode returns and leaves in the receiver depends on the buffer
\* alone: it is what Decode into a fresh message gives
DecodePure ==
    op = "decode"
        => LET f == Decode(v, Zero(v), data)
           IN  /\ err = f.err
               /\ err = NoError => Deref(v, m, data) = Deref(v, f.m, data)

\* C8: overwriting the buffer after a successful Decode changes no field of
\* the decoded message
NoAliasing ==
    (op = "reuse" /\ err = NoError) => Deref(v, m, data) = snap

\* the six bytes the encoding of a server slot is to be
ExpectedGroup(a) ==
    IF a.Nil THEN << 0, 0, 0, 0, 0, 0 >>
    ELSE SubSeq(a.IP, Len(a.IP) - 3, Len(a.IP)) \o << a.Port % 256, a.Port \div 256 >>

\* C9: a list of n <= 255 server slots encodes as header, discriminant, the
\* count byte n and n groups of 6 bytes in order, address then little-endian
\* port, a nil slot as six zero bytes
ServerListEncoding ==
    (op = "encode" /\ v = "ServerList" /\ Len(msg.Servers) <= 255)
        => LET n == Len(msg.Servers)
           IN  /\ Len(data) = HeaderLength + 2 + 6 * n
               /\ At(data, 5) = MessageServerList
               /\ At(data, 6) = n
               /\ \A i \in 1..n :
                     Slice(data, 7 + 6 * (i - 1), 7 + 6 * i) = ExpectedGroup(msg.Servers[i])

ServerListWitness ==
    /\ op = "encode"
    /\ v = "ServerList"
    /\ Len(msg.Servers) = 3
    /\ msg.Servers[2].Nil
    /\ ~ msg.Servers[1].Nil
    /\ ~ msg.Servers[3].Nil
    /\ At(data, 6) = 3
    /\ Len(data) = 7 + 18
    /\ Slice(data, 13, 19) = << 0, 0, 0, 0, 0, 0 >>

\* C10: every count or length prefix of an encoded frame equals the number of
\* items or bytes that follow it
PrefixConsistency ==
    op = "encode"
        => CASE v = "ServerList" -> At(data, 6) = Len(msg.Servers)
             [] v = "ServerMessage" -> Uint16(Slice(data, 6, 8)) = Len(msg.Messages)
             [] v = "Login" -> Uint32(Slice(data, 28, 32)) = Len(msg.Tags)
             [] v = "ServerIdent" -> Uint32(Slice(data, 28, 32)) = Len(msg.Tags)
             [] v = "OfferFiles" -> Uint32(Slice(data, 6, 10)) = Len(msg.Files)
             [] OTHER -> TRUE

====
